---- MODULE Spec2Model ----
(***************************************************************************)
(* A model of the OLM (ORIGEN library manager) permutation and assembly    *)
(* pipeline: scale/olm/assemble.py (arpdata_txt, archive and helpers) and  *)
(* scale/olm/generate.py (all_permutations).                               *)
(*                                                                         *)
(* Three specifications share the module:                                  *)
(*   SpecThin  the pure function _generate_thinned_burnup_list             *)
(*   SpecPerm  the pure function all_permutations                          *)
(*   Spec      one call of assemble.arpdata_txt or of assemble.archive,    *)
(*             with the external tool (OBIWAN) and the files read from     *)
(*             disk as the nondeterministic environment                    *)
(* Python names are kept; a leading underscore is dropped.                 *)
(***************************************************************************)
EXTENDS Integers, Sequences, FiniteSets, TLC

VARIABLES
    \* ---- arguments of the call
    entry,                \* which top-level function is called
    fuel_type,            \* arpdata_txt(fuel_type, ...)
    dim_map,              \* arpdata_txt(dim_map, ...): the set of keys it maps
    keep_every,           \* arpdata_txt(keep_every, ...) / thinning stride
    dry_run,              \* arpdata_txt(dry_run, ...)
    \* ---- harness of the pure functions
    y_list,               \* argument of _generate_thinned_burnup_list
    thin_ret,             \* its outcome, NotCalled before the call
    states,               \* argument of all_permutations: <<[dim, vals], ...>>
    perm_ret,             \* its outcome, NotCalled before the call
    thin_factor,          \* argument of build.generated_thinned_list
    build_ret,            \* its outcome, NotCalled before the call
    state,                \* argument of comp_mox_ornltm2003_2: [pu239_frac, pu_frac]
    am241,                \* argument of comp_mox_ornltm2003_2
    comp_ret,             \* its outcome, NotCalled before the call
    \* ---- control state of the call
    pc,                   \* position in the code
    i,                    \* loop index (0-based, as in the code)
    error,                \* the exception that ended the call, or NoError
    \* ---- data of _get_arpinfo
    perms,                \* generate.olm.json "perms", as loaded
    file_list,            \* result of _get_files
    interp_list,          \* enrichment_list/mod_dens_list/... accumulated
    outputs,              \* burnups parsed from the output files read so far
    burnup_list,          \* local of _get_burnup_list
    previous_output_file, \* local of _get_burnup_list
    arpinfo,              \* the ArpInfo object
    thinned_burnup_list,  \* local of arpdata_txt
    \* ---- data of _process_libraries / archive
    bu_str,               \* ','.join of the full burnup list
    thin_bu_str,          \* ','.join of the thinned burnup list
    points,               \* the manifest list
    lib_paths,            \* local of archive()
    \* ---- the environment: file system and external tool
    arplibs,              \* the arplibs directory: recreated by this call? its files
    tmp_files,            \* scratch files in arplibs/tmp: [name, owner]
    arpdata_written,      \* number of writes of arpdata.txt in this call
    calls,                \* external-tool invocations issued so far, in order
    last,                 \* the most recent invocation and its exit code
    tool_errors,          \* invocations of required steps that exited non-zero
    fixups                \* whether the last stage relocated a misplaced output

argVars  == <<entry, fuel_type, dim_map, keep_every, dry_run>>
thinVars == <<y_list, thin_ret>>
permVars == <<states, perm_ret>>
buildVars == <<thin_factor, build_ret>>
compVars == <<state, am241, comp_ret>>
ctlVars  == <<pc, i, error>>
infoVars == <<perms, file_list, interp_list, outputs, burnup_list,
              previous_output_file, arpinfo, thinned_burnup_list>>
procVars == <<bu_str, thin_bu_str, points, lib_paths>>
envVars  == <<arplibs, tmp_files, arpdata_written, calls, last, tool_errors, fixups>>
vars     == <<argVars, thinVars, permVars, buildVars, compVars, ctlVars, infoVars, procVars, envVars>>

----------------------------------------------------------------------------
(* Bounds of the model.                                                    *)

\* longest burnup sequence handed to the thinning function
MaxLen == 4
\* burnup values are drawn from 0..MaxBurnup
MaxBurnup == 2
\* largest thinning stride; strides are drawn from -1..MaxKeep
MaxKeep == 3
\* largest number of axes handed to all_permutations
MaxAxes == 3
\* largest number of values of one axis
MaxCard == 2
\* axis values are drawn from 1..MaxVal
MaxVal == 2
\* largest number of permutations in generate.olm.json
MaxPerms == 4

NotCalled == [called |-> FALSE]
NoError   == "none"
Untouched == [recreated |-> FALSE, files |-> {}]

\* Sequences over S of length 0..n.
SeqsUpTo(S, n) == UNION {[1..m -> S] : m \in 0..n}

\* The elements of a sequence.
Range(s) == {s[m] : m \in DOMAIN s}

\* Sequences without repeated elements.
Injective(s) == \A a, b \in DOMAIN s : a # b => s[a] # s[b]

----------------------------------------------------------------------------
(* assemble._generate_thinned_burnup_list                                  *)

\* The mutant inverts the test of the counter: an interior point is kept
\* until the counter reaches the stride.
ThinKeep_inverted(always_keep_ends, j, n, rm, keep) ==
    IF always_keep_ends /\ (j = 0 \/ j = n - 1) THEN TRUE
    ELSE ~(rm >= keep)

\* The mutant forgets the last point.
ThinKeep_noLast(always_keep_ends, j, n, rm, keep) ==
    IF always_keep_ends /\ j = 0 THEN TRUE
    ELSE rm >= keep

\* The decision p of one loop iteration: keep y_list[j]?
ThinKeep(always_keep_ends, j, n, rm, keep) ==
    IF always_keep_ends /\ (j = 0 \/ j = n - 1) THEN TRUE
    ELSE rm >= keep

\* The for loop, from iteration j on, with the locals rm and thinned_burnup_list.
RECURSIVE ThinLoop(_, _, _, _, _)
ThinLoop(keep, y, j, rm, thinned) ==
    IF j >= Len(y) THEN thinned
    ELSE LET p == ThinKeep(TRUE, j, Len(y), rm, keep)
         IN  ThinLoop(keep, y, j + 1,
                      (IF p THEN 0 ELSE rm) + 1,
                      IF p THEN Append(thinned, y[j + 1]) ELSE thinned)

\* The mutant accepts every stride.
ThinRaises_never(keep) == FALSE

\* The test that raises ValueError.
ThinRaises(keep) == ~(keep > 0)

\* The outcome of the call: a ValueError or the returned list.
generate_thinned_burnup_list(keep, y) ==
    IF ThinRaises(keep)
    THEN [called |-> TRUE, raised |-> TRUE, value |-> <<>>]
    ELSE [called |-> TRUE, raised |-> FALSE, value |-> ThinLoop(keep, y, 0, 1, <<>>)]

----------------------------------------------------------------------------
(* generate.all_permutations                                               *)

\* The mutant leaves the values in the order given.
sorted_asGiven(s) == s

\* Python's sorted() on a list of numbers: ascending, duplicates kept.
RECURSIVE InsertSorted(_, _)
InsertSorted(x, s) ==
    IF s = <<>> THEN <<x>>
    ELSE IF x < Head(s) THEN <<x>> \o s
    ELSE <<Head(s)>> \o InsertSorted(x, Tail(s))

RECURSIVE SortLoop(_)
SortLoop(s) ==
    IF s = <<>> THEN <<>>
    ELSE InsertSorted(s[Len(s)], SortLoop(SubSeq(s, 1, Len(s) - 1)))

sorted(s) == SortLoop(s)

\* The mutant ranks the axes in their own order (a plain reshape without
\* meshgrid's exchange of the first two axes is still a product; forgetting
\* that the rank decides the stride is not).
AxisRank_flat(k, n) == 0

\* np.array(np.meshgrid(*axes)).T.reshape(-1, n): meshgrid ('xy' indexing)
\* gives arrays of shape (c2, c1, c3, ..., cn); stacked, transposed and
\* reshaped in C order, the rows run with axis 2 varying fastest, then
\* axis 1, then axis 3, ..., axis n slowest.  AxisRank is the place of axis
\* k in that order, 0 the fastest.
AxisRank(k, n) ==
    IF n >= 2 /\ k = 1 THEN 1
    ELSE IF n >= 2 /\ k = 2 THEN 0
    ELSE k - 1

\* The product of the lengths of the axes in the set K.
RECURSIVE LenProduct(_, _)
LenProduct(axes, K) ==
    IF K = {} THEN 1
    ELSE LET k == CHOOSE x \in K : TRUE
         IN  Len(axes[k]) * LenProduct(axes, K \ {k})

\* The number of rows an axis stays constant for.
AxisStride(k, axes) ==
    LenProduct(axes, {m \in DOMAIN axes : AxisRank(m, Len(axes)) < AxisRank(k, Len(axes))})

\* Row r (0-based) of the grid.
GridRow(r, axes) ==
    [k \in DOMAIN axes |->
        axes[k][((r \div AxisStride(k, axes)) % Len(axes[k])) + 1]]

\* The grid: one row per combination.
meshgrid_T_reshape(axes) ==
    [r \in 1..LenProduct(axes, DOMAIN axes) |-> GridRow(r - 1, axes)]

\* The outcome of all_permutations(**st): st is the keyword arguments in
\* order, <<[dim |-> name, vals |-> list], ...>>.  With no axis at all
\* numpy cannot reshape the empty array to (-1, 0) and raises ValueError.
all_permutations(st) ==
    LET dims == [k \in DOMAIN st |-> st[k].dim]
        axes == [k \in DOMAIN st |-> sorted(st[k].vals)]
        grid == meshgrid_T_reshape(axes)
    IN  IF Len(dims) = 0
        THEN [called |-> TRUE, raised |-> TRUE, value |-> <<>>]
        ELSE [called |-> TRUE, raised |-> FALSE,
              value |-> [r \in DOMAIN grid |->
                           [d \in Range(dims) |->
                              grid[r][CHOOSE k \in DOMAIN dims : dims[k] = d]]]]

----------------------------------------------------------------------------
(* Values the variables of the other specifications rest at.               *)

IdleArgs ==
    /\ entry = "none"
    /\ fuel_type = "UOX"
    /\ dim_map = {}
    /\ dry_run = FALSE

IdleThin == y_list = <<>> /\ thin_ret = NotCalled
IdlePerm == states = <<>> /\ perm_ret = NotCalled
IdleBuild == thin_factor = 0 /\ build_ret = NotCalled
IdleComp == state = [pu239_frac |-> 1, pu_frac |-> 1] /\ am241 = 0 /\ comp_ret = NotCalled

IdleRun ==
    /\ pc = "idle" /\ i = 0 /\ error = [kind |-> NoError, names |-> {}]
    /\ perms = <<>> /\ file_list = <<>> /\ interp_list = <<>> /\ outputs = <<>>
    /\ burnup_list = <<>> /\ previous_output_file = [dir |-> 0, stem |-> 0, ext |-> ""] /\ arpinfo = [made |-> FALSE]
    /\ thinned_burnup_list = <<>>
    /\ bu_str = <<>> /\ thin_bu_str = <<>> /\ points = <<>> /\ lib_paths = <<>>
    /\ arplibs = Untouched /\ tmp_files = {} /\ arpdata_written = 0
    /\ calls = <<>> /\ last = [point |-> 0, op |-> "none", rc |-> 0] /\ tool_errors = {} /\ fixups = FALSE

----------------------------------------------------------------------------
(* SpecThin: one call of _generate_thinned_burnup_list.                    *)

InitThin ==
    /\ IdleArgs /\ IdlePerm /\ IdleBuild /\ IdleComp /\ IdleRun
    /\ keep_every \in -1..MaxKeep
    /\ y_list \in SeqsUpTo(0..MaxBurnup, MaxLen)
    /\ thin_ret = NotCalled

CallThin ==
    /\ ~thin_ret.called
    /\ thin_ret' = generate_thinned_burnup_list(keep_every, y_list)
    /\ UNCHANGED <<argVars, y_list, permVars, buildVars, compVars, ctlVars, infoVars, procVars, envVars>>

NextThin == CallThin

SpecThin == InitThin /\ [][NextThin]_vars

----------------------------------------------------------------------------
(* SpecPerm: one call of all_permutations.                                 *)

DimNames == <<"enrichment", "mod_dens", "pu239_frac", "pu_frac", "specific_power">>

\* The keyword arguments: up to MaxAxes axes, each a list of distinct values.
AxisInputs ==
    {st \in SeqsUpTo({v \in SeqsUpTo(1..MaxVal, MaxCard) : Injective(v)}, MaxAxes) : TRUE}

InitPerm ==
    /\ IdleArgs /\ keep_every = 1 /\ IdleThin /\ IdleBuild /\ IdleComp /\ IdleRun
    /\ \E vs \in AxisInputs :
          states = [k \in DOMAIN vs |-> [dim |-> DimNames[k], vals |-> vs[k]]]
    /\ perm_ret = NotCalled

CallPerm ==
    /\ ~perm_ret.called
    /\ perm_ret' = all_permutations(states)
    /\ UNCHANGED <<argVars, thinVars, states, buildVars, compVars, ctlVars, infoVars, procVars, envVars>>

NextPerm == CallPerm

SpecPerm == InitPerm /\ [][NextPerm]_vars

----------------------------------------------------------------------------
(* build.generated_thinned_list and SpecBuild: one call of it.             *)

\* The mutant keeps an interior point as soon as the counter equals the
\* thinning factor.
BuildKeep_atLeast(j, n, rm, factor) ==
    IF j = 0 \/ j = n - 1 THEN TRUE
    ELSE rm - factor >= 0

\* The decision p of one loop iteration: keep burnup_list[j]?
BuildKeep(j, n, rm, factor) ==
    IF j = 0 \/ j = n - 1 THEN TRUE
    ELSE rm - factor > 0

\* The for loop, from iteration j on, with the locals rm and thinned_list.
\* rm counts in whole steps from 0.0; with an integer thin_factor the
\* floating-point arithmetic is exact.
RECURSIVE BuildLoop(_, _, _, _, _)
BuildLoop(factor, bl, j, rm, thinned) ==
    IF j >= Len(bl) THEN thinned
    ELSE LET p == BuildKeep(j, Len(bl), rm, factor)
         IN  BuildLoop(factor, bl, j + 1,
                       (IF p THEN 0 ELSE rm) + 1,
                       IF p THEN Append(thinned, bl[j + 1]) ELSE thinned)

\* The outcome of the call: it never raises.
generated_thinned_list(factor, bl) ==
    [called |-> TRUE, raised |-> FALSE, value |-> BuildLoop(factor, bl, 0, 0, <<>>)]

InitBuild ==
    /\ IdleArgs /\ keep_every = 1 /\ IdlePerm /\ IdleComp /\ IdleRun
    /\ thin_ret = NotCalled
    /\ thin_factor \in 0..MaxKeep
    /\ y_list \in SeqsUpTo(0..MaxBurnup, MaxLen)
    /\ build_ret = NotCalled

CallBuild ==
    /\ ~build_ret.called
    /\ build_ret' = generated_thinned_list(thin_factor, y_list)
    /\ UNCHANGED <<argVars, thinVars, permVars, thin_factor, compVars, ctlVars, infoVars,
                   procVars, envVars>>

NextBuild == CallBuild

SpecBuild == InitBuild /\ [][NextBuild]_vars

----------------------------------------------------------------------------
(* generate.comp_mox_ornltm2003_2 and SpecComp: one call of it.            *)

\* Percentages the state may hold for pu239_frac: below, at and inside the
\* ends of the range 0..100, and beyond it.
Pu239Fracs == {-1, 0, 1, 50, 99, 100, 101}

\* Percentages of Pu+Am in the heavy metal, and of Am-241 in Pu+Am.
PuFracs == {0, 5, 100}
Am241Fracs == {0, 1, 2}

\* The test that raises ValueError.  Python reads
\* `not (pu239 > 0.0) and (pu239 < 100.0)` as
\* `(not (pu239 > 0.0)) and (pu239 < 100.0)`.
CompRejects(pu239) == (~(pu239 > 0)) /\ (pu239 < 100)

\* __renormalize_wtpt(wtpt0, sum0): `norm = sum / sum0` divides by sum0.
RenormDividesByZero(sum0) == sum0 = 0

\* The renormalisations by element divide by the share of Pu, Am and U in
\* the heavy metal (`wtpt[k] /= norm`): the share of Pu is zero without
\* Pu+Am, the share of Am without Am-241 or without Pu+Am, the share of U
\* when Pu+Am is all of the heavy metal.
ElementShareIsZero(pu_frac, am) == pu_frac = 0 \/ am = 0 \/ pu_frac = 100

\* The outcome of comp_mox_ornltm2003_2(state, density, uo2, am241): the
\* exception raised, or the composition computed for pu239.
comp_mox_ornltm2003_2(st, am) ==
    LET pu239 == st.pu239_frac
    IN  IF CompRejects(pu239)
        THEN [called |-> TRUE, raised |-> TRUE, error |-> "ValueError", pu239 |-> pu239]
        ELSE IF RenormDividesByZero(100 - pu239 - am) \/ ElementShareIsZero(st.pu_frac, am)
        THEN [called |-> TRUE, raised |-> TRUE, error |-> "ZeroDivisionError", pu239 |-> pu239]
        ELSE [called |-> TRUE, raised |-> FALSE, error |-> NoError, pu239 |-> pu239]

InitComp ==
    /\ IdleArgs /\ keep_every = 1 /\ IdleThin /\ IdlePerm /\ IdleBuild /\ IdleRun
    /\ state \in [pu239_frac : Pu239Fracs, pu_frac : PuFracs]
    /\ am241 \in Am241Fracs
    /\ comp_ret = NotCalled

CallComp ==
    /\ ~comp_ret.called
    /\ comp_ret' = comp_mox_ornltm2003_2(state, am241)
    /\ UNCHANGED <<argVars, thinVars, permVars, buildVars, state, am241, ctlVars, infoVars,
                   procVars, envVars>>

NextComp == CallComp

SpecComp == InitComp /\ [][NextComp]_vars

----------------------------------------------------------------------------
(* The environment of a call of arpdata_txt or archive.                    *)

\* Fuel types a caller may pass; only UOX and MOX are known to the code.
FuelTypes == {"UOX", "MOX", "THO2"}

\* A dim_map is modelled by the set of interpolation keys it maps; each key
\* is mapped to the state field of that name.  The dim_maps a caller
\* passes: the complete one for UOX, the complete one for MOX, and two that
\* lack a key.
DimMaps ==
    {{"enrichment", "mod_dens"}, {"pu239_frac", "pu_frac", "mod_dens"},
     {"enrichment"}, {"pu239_frac", "mod_dens"}}

\* How the input files of generate.olm.json are laid out: as generate's
\* expander writes them (perm<k>/perm<k>.inp), or one directory per
\* permutation with the same file name in each.
Layouts == {"perm_dirs", "shared_name"}

\* The input file of permutation k (0-based), relative to the work directory.
InputFile(layout, k) ==
    [dir |-> k, stem |-> IF layout = "perm_dirs" THEN k ELSE 0, ext |-> ".inp"]

\* Path.with_suffix: the last suffix is replaced.  A library name
\* <stem>.system.f33 keeps its ".system" part.
with_suffix(path, suffix) ==
    [path EXCEPT !.ext =
        IF path.ext \in {".system.f33", ".system.h5"} /\ suffix \in {".f33", ".h5"}
        THEN ".system" \o suffix
        ELSE suffix]

\* Path.name: the file name without its directory.
PathName(path) == [stem |-> path.stem, ext |-> path.ext]

NoFile == [dir |-> 0, stem |-> 0, ext |-> ""]

\* What core.ScaleOutfile.parse_burnups_from_triton_output may find in an
\* output file.
BurnupOutputs == {<<>>, <<0, 10, 20>>, <<0, 10, 30>>, <<0, 10, 20, 30, 40>>}

\* The value every mapped state field of one permutation holds.
StateValues == {1, 2}

\* Exit codes of the external tool.
ExitCodes == {0, 1}

\* ','.join([str(bu) for bu in l]): the numbers separated by commas.  The
\* string is a sequence of tokens: a burnup (never negative) stands for its
\* digits, -1 for a comma.
RECURSIVE JoinStr(_)
JoinStr(l) ==
    IF l = <<>> THEN <<>>
    ELSE IF Len(l) = 1 THEN <<l[1]>>
    ELSE <<l[1], -1>> \o JoinStr(Tail(l))

\* internal.run_command(cmd, check_return_code=True): a non-zero exit code
\* raises unless the caller passes check_return_code=False.
run_command_raises(rc, check_return_code) == check_return_code /\ rc # 0

----------------------------------------------------------------------------
(* core.ArpInfo, as far as the pipeline uses it.                           *)

\* ArpInfo.init_uox / init_mox: one point per library, in the order given.
ArpInfo_init(name, fuel, lib_list, coords) ==
    [made |-> TRUE, name |-> name, fuel_type |-> fuel,
     origin_lib_list |-> lib_list,
     lib_list |-> [k \in DOMAIN lib_list |-> [canonical |-> FALSE, index |-> k - 1, ext |-> lib_list[k].ext]],
     interpvars |-> coords,
     burnup_list |-> <<>>]

\* ArpInfo.set_canonical_filenames(ext): names derived from the assembly
\* name, the flat index and the extension.
set_canonical_filenames(info, ext) ==
    [info EXCEPT !.lib_list =
        [k \in DOMAIN info.lib_list |-> [canonical |-> TRUE, index |-> k - 1, ext |-> ext]]]

num_libs(info) == Len(info.origin_lib_list)
get_lib_by_index(info, n) == info.lib_list[n + 1]
get_perm_by_index(info, n) == n
interpvars_by_index(info, n) == info.interpvars[n + 1]

----------------------------------------------------------------------------
(* Spec: one call of assemble.arpdata_txt or assemble.archive.             *)

Err(kind, names) == [kind |-> kind, names |-> names]

Init ==
    /\ IdleThin /\ IdlePerm /\ IdleBuild /\ IdleComp
    /\ entry \in {"arpdata_txt", "archive"}
    /\ IF entry = "arpdata_txt"
       THEN /\ fuel_type \in FuelTypes
            /\ dim_map \in DimMaps
            /\ keep_every \in -1..MaxKeep
            /\ dry_run \in BOOLEAN
       ELSE /\ fuel_type = "UOX" /\ dim_map = {} /\ keep_every = 1 /\ dry_run = FALSE
    /\ pc = "start" /\ i = 0 /\ error = Err(NoError, {})
    /\ perms = <<>> /\ file_list = <<>> /\ interp_list = <<>> /\ outputs = <<>>
    /\ burnup_list = <<>> /\ previous_output_file = NoFile /\ arpinfo = [made |-> FALSE]
    /\ thinned_burnup_list = <<>>
    /\ bu_str = <<>> /\ thin_bu_str = <<>> /\ points = <<>> /\ lib_paths = <<>>
    /\ arplibs = Untouched /\ tmp_files = {} /\ arpdata_written = 0
    /\ calls = <<>> /\ last = [point |-> 0, op |-> "none", rc |-> 0]
    /\ tool_errors = {} /\ fixups = FALSE

\* An exception leaves the call.
Raise(e) == pc' = "raised" /\ error' = e

\* arpdata_txt, dry_run: return {} at once.
DryRun ==
    /\ entry = "arpdata_txt" /\ pc = "start" /\ dry_run
    /\ pc' = "returned"
    /\ UNCHANGED <<argVars, thinVars, permVars, buildVars, compVars, i, error, infoVars, procVars, envVars>>

\* _get_arpinfo: json.load of generate.olm.json.
LoadGenerate ==
    /\ entry = "arpdata_txt" /\ pc = "start" /\ ~dry_run
    /\ \E n \in 0..MaxPerms, layout \in Layouts :
          perms' = [k \in 1..n |-> [input_file |-> InputFile(layout, k - 1)]]
    /\ pc' = "get_files"
    /\ UNCHANGED <<argVars, thinVars, permVars, buildVars, compVars, i, error, file_list, interp_list, outputs,
                   burnup_list, previous_output_file, arpinfo, thinned_burnup_list,
                   procVars, envVars>>

\* _get_files: every library and every output file must exist.
GetFiles ==
    /\ pc = "get_files"
    /\ \E missing \in {"none", "lib", "output"} :
          /\ missing # "none" => perms # <<>>
          /\ IF missing = "none"
             THEN /\ file_list' = [k \in DOMAIN perms |->
                                     [lib |-> with_suffix(perms[k].input_file, ".system.f33"),
                                      output |-> with_suffix(perms[k].input_file, ".out")]]
                  /\ pc' = "fuel_type"
                  /\ UNCHANGED error
             ELSE /\ Raise(Err("missing_file", {}))
                  /\ UNCHANGED file_list
    /\ UNCHANGED <<argVars, thinVars, permVars, buildVars, compVars, i, perms, interp_list, outputs,
                   burnup_list, previous_output_file, arpinfo, thinned_burnup_list,
                   procVars, envVars>>

\* The keys dim_map must map for a fuel type, in the order they are read.
RequiredKeys(fuel) ==
    IF fuel = "UOX" THEN <<"enrichment", "mod_dens">>
    ELSE <<"pu239_frac", "pu_frac", "mod_dens">>

\* _get_arpinfo: the fuel type selects _get_arpinfo_uox or _get_arpinfo_mox,
\* which first look the required keys up in dim_map.
SelectFuelType ==
    /\ pc = "fuel_type"
    /\ IF fuel_type \notin {"UOX", "MOX"}
       THEN Raise(Err("unknown_fuel_type", {})) /\ UNCHANGED <<i, interp_list>>
       ELSE IF ~(Range(RequiredKeys(fuel_type)) \subseteq dim_map)
       THEN Raise(Err("dim_map_key", {})) /\ UNCHANGED <<i, interp_list>>
       ELSE /\ pc' = "arpinfo_loop" /\ i' = 0 /\ interp_list' = <<>>
            /\ UNCHANGED error
    /\ UNCHANGED <<argVars, thinVars, permVars, buildVars, compVars, perms, file_list, outputs,
                   burnup_list, previous_output_file, arpinfo, thinned_burnup_list,
                   procVars, envVars>>

\* _get_arpinfo_uox / _mox: one iteration of the loop over the permutations.
\* The state of permutation i either lacks a mapped field (KeyError) or
\* holds a value for each.
ArpinfoLoop ==
    /\ pc = "arpinfo_loop" /\ i < Len(perms)
    /\ \E st \in [has_fields : BOOLEAN, value : StateValues] :
          IF ~st.has_fields
          THEN /\ st.value = 1
               /\ Raise(Err("state_key", {file_list[i + 1].lib})) /\ UNCHANGED <<i, interp_list>>
          ELSE /\ interp_list' = Append(interp_list,
                                        [key \in Range(RequiredKeys(fuel_type)) |-> st.value])
               /\ i' = i + 1
               /\ UNCHANGED <<pc, error>>
    /\ UNCHANGED <<argVars, thinVars, permVars, buildVars, compVars, perms, file_list, outputs,
                   burnup_list, previous_output_file, arpinfo, thinned_burnup_list,
                   procVars, envVars>>

\* _get_arpinfo_uox / _mox: create the ArpInfo; back in _get_arpinfo,
\* _get_burnup_list starts.
ArpinfoCreate ==
    /\ pc = "arpinfo_loop" /\ i = Len(perms)
    /\ arpinfo' = ArpInfo_init("name", fuel_type,
                               [k \in DOMAIN file_list |-> file_list[k].lib], interp_list)
    /\ burnup_list' = <<>> /\ previous_output_file' = NoFile
    /\ i' = 0 /\ pc' = "get_burnup_list"
    /\ UNCHANGED <<argVars, thinVars, permVars, buildVars, compVars, error, perms, file_list, interp_list, outputs,
                   thinned_burnup_list, procVars, envVars>>

\* _get_burnup_list: the test that raises.
BurnupsDeviate(previous, bu) == Len(previous) > 0 /\ previous # bu

\* _get_burnup_list: one iteration; the output file of permutation i is parsed.
GetBurnupLoop ==
    /\ pc = "get_burnup_list" /\ i < Len(file_list)
    /\ \E bu \in BurnupOutputs :
          /\ outputs' = Append(outputs, bu)
          /\ IF BurnupsDeviate(burnup_list, bu)
             THEN /\ Raise(Err("burnups_deviated",
                               {file_list[i + 1].output, previous_output_file}))
                  /\ UNCHANGED <<i, burnup_list, previous_output_file>>
             ELSE /\ burnup_list' = bu
                  /\ previous_output_file' = file_list[i + 1].output
                  /\ i' = i + 1
                  /\ UNCHANGED <<pc, error>>
    /\ UNCHANGED <<argVars, thinVars, permVars, buildVars, compVars, perms, file_list, interp_list,
                   arpinfo, thinned_burnup_list, procVars, envVars>>

\* _get_arpinfo: store the burnup list, set the canonical file names, return.
GetBurnupReturn ==
    /\ pc = "get_burnup_list" /\ i = Len(file_list)
    /\ arpinfo' = set_canonical_filenames([arpinfo EXCEPT !.burnup_list = burnup_list], ".h5")
    /\ pc' = "thin_list"
    /\ UNCHANGED <<argVars, thinVars, permVars, buildVars, compVars, i, error, perms, file_list, interp_list, outputs,
                   burnup_list, previous_output_file, thinned_burnup_list, procVars, envVars>>

\* arpdata_txt: thinned_burnup_list = _generate_thinned_burnup_list(...).
ThinList ==
    /\ pc = "thin_list"
    /\ LET r == generate_thinned_burnup_list(keep_every, arpinfo.burnup_list)
       IN  IF r.raised
           THEN Raise(Err("keep_every", {})) /\ UNCHANGED thinned_burnup_list
           ELSE /\ thinned_burnup_list' = r.value
                /\ pc' = "process_libraries"
                /\ UNCHANGED error
    /\ UNCHANGED <<argVars, thinVars, permVars, buildVars, compVars, i, perms, file_list, interp_list, outputs,
                   burnup_list, previous_output_file, arpinfo, procVars, envVars>>

----------------------------------------------------------------------------
(* _process_libraries                                                      *)

\* One invocation of the external tool for a point.
Call(point, op, arg) == [point |-> point, op |-> op, arg |-> arg]

\* The scratch file of point n: tmp / old_lib.name.
tmp_lib(info, n) == PathName(info.origin_lib_list[n + 1])

\* A file written (copied, or moved onto) in the scratch directory replaces
\* a file of the same name.
WriteTmp(files, name, owner) ==
    {f \in files : f.name # name} \cup {[name |-> name, owner |-> owner]}

\* Recreate arplibs, build the burnup strings, replace the grid's burnup
\* list by the thinned one, create arplibs/tmp, reload the permutations.
ProcessInit ==
    /\ pc = "process_libraries"
    /\ arplibs' = [recreated |-> TRUE, files |-> {}]
    /\ bu_str' = JoinStr(arpinfo.burnup_list)
    /\ thin_bu_str' = JoinStr(thinned_burnup_list)
    /\ arpinfo' = [arpinfo EXCEPT !.burnup_list = thinned_burnup_list]
    /\ tmp_files' = {}
    /\ points' = <<>>
    /\ i' = 0
    /\ pc' = "set_burnup"
    /\ UNCHANGED <<argVars, thinVars, permVars, buildVars, compVars, error, perms, file_list, interp_list, outputs,
                   burnup_list, previous_output_file, thinned_burnup_list, lib_paths,
                   arpdata_written, calls, last, tool_errors, fixups>>

\* The bookkeeping of one tool invocation: the log, the last exit code and,
\* when run_command raises, the exception (its text is run_command's).
Invoke(op, arg, rc, check_return_code) ==
    /\ calls' = Append(calls, Call(i, op, arg))
    /\ last' = [point |-> i, op |-> op, rc |-> rc]
    /\ IF run_command_raises(rc, check_return_code)
       THEN /\ tool_errors' = tool_errors \cup {[point |-> i, op |-> op]}
            /\ Raise(Err("tool", {}))
       ELSE UNCHANGED <<tool_errors, error>>

\* The mutant leaves the loop one point early.
LoopDone_short(info, n) == n >= num_libs(info) - 1

\* for i in range(arpinfo.num_libs()): the loop is over.
LoopDone(info, n) == n >= num_libs(info)

\* The mutant hands the set-burnup step the thinned list.
SetBurnup_thinned ==
    /\ pc = "set_burnup" /\ i < num_libs(arpinfo)
    /\ \E rc \in ExitCodes, misplaced \in BOOLEAN :
          /\ rc # 0 => ~misplaced
          /\ Invoke("set_burnup", JoinStr(arpinfo.burnup_list), rc, TRUE)
          /\ fixups' = misplaced
          /\ IF rc = 0 THEN pc' = "thin" ELSE TRUE
    /\ tmp_files' = WriteTmp(tmp_files, tmp_lib(arpinfo, i), i)
    /\ UNCHANGED <<argVars, thinVars, permVars, buildVars, compVars, i, infoVars, procVars, arplibs, arpdata_written>>

\* Top of the loop body: copy the origin library to its scratch file and
\* set the full burnup list on it; relocate a misplaced output.
SetBurnup ==
    /\ pc = "set_burnup" /\ i < num_libs(arpinfo)
    /\ \E rc \in ExitCodes, misplaced \in BOOLEAN :
          /\ rc # 0 => ~misplaced
          /\ Invoke("set_burnup", bu_str, rc, TRUE)
          /\ fixups' = misplaced
          /\ IF rc = 0 THEN pc' = "thin" ELSE TRUE
    /\ tmp_files' = WriteTmp(tmp_files, tmp_lib(arpinfo, i), i)
    /\ UNCHANGED <<argVars, thinVars, permVars, buildVars, compVars, i, infoVars, procVars, arplibs, arpdata_written>>

\* The mutant checks the exit code of the thinning step as well.
ThinCheck_strict == TRUE

\* check_return_code of the thinning invocation.
ThinCheck == FALSE

\* Burnup thinning, only when the thinned string differs from the full one;
\* the exit code is not checked.
Thin ==
    /\ pc = "thin"
    /\ IF bu_str # thin_bu_str
       THEN \E rc \in ExitCodes, misplaced \in BOOLEAN :
               /\ Invoke("thin", thin_bu_str, rc, ThinCheck)
               /\ fixups' = misplaced
               /\ IF run_command_raises(rc, ThinCheck) THEN TRUE ELSE pc' = "tag"
       ELSE /\ pc' = "tag"
            /\ fixups' = FALSE
            /\ UNCHANGED <<calls, last, tool_errors, error>>
    /\ UNCHANGED <<argVars, thinVars, permVars, buildVars, compVars, i, infoVars, procVars,
                   arplibs, tmp_files, arpdata_written>>

\* The mutant catches a failure of the tag step and goes on, as archive() does.
Tag_swallow ==
    /\ pc = "tag"
    /\ \E rc \in ExitCodes :
          /\ calls' = Append(calls, Call(i, "tag", interpvars_by_index(arpinfo, i)))
          /\ last' = [point |-> i, op |-> "tag", rc |-> rc]
          /\ tool_errors' = IF rc # 0 THEN tool_errors \cup {[point |-> i, op |-> "tag"]}
                            ELSE tool_errors
    /\ pc' = "convert"
    /\ fixups' = FALSE
    /\ UNCHANGED <<argVars, thinVars, permVars, buildVars, compVars, i, error, infoVars, procVars,
                   arplibs, tmp_files, arpdata_written>>

\* Set the interpolation and identity tags on the scratch file.
Tag ==
    /\ pc = "tag"
    /\ \E rc \in ExitCodes :
          /\ Invoke("tag", interpvars_by_index(arpinfo, i), rc, TRUE)
          /\ IF rc = 0 THEN pc' = "convert" ELSE TRUE
    /\ fixups' = FALSE
    /\ UNCHANGED <<argVars, thinVars, permVars, buildVars, compVars, i, infoVars, procVars,
                   arplibs, tmp_files, arpdata_written>>

\* Convert the scratch file to HDF5 and move the result to its canonical place.
Convert ==
    /\ pc = "convert"
    /\ \E rc \in ExitCodes :
          /\ Invoke("convert", tmp_lib(arpinfo, i), rc, TRUE)
          /\ IF rc = 0
             THEN /\ pc' = "view"
                  /\ arplibs' = [arplibs EXCEPT !.files = @ \cup {get_lib_by_index(arpinfo, i)}]
             ELSE UNCHANGED arplibs
    /\ UNCHANGED <<argVars, thinVars, permVars, buildVars, compVars, i, infoVars, procVars,
                   tmp_files, arpdata_written, fixups>>

\* Extract the inventory of the system case from the f71 of the point's
\* permutation, write it beside the library and summarize the composition.
View ==
    /\ pc = "view"
    /\ \E rc \in ExitCodes :
          /\ Invoke("view", get_perm_by_index(arpinfo, i), rc, TRUE)
          /\ IF rc = 0
             THEN /\ pc' = "record"
                  /\ arplibs' = [arplibs EXCEPT !.files =
                                    @ \cup {[get_lib_by_index(arpinfo, i) EXCEPT !.ext = ".ii.json"]}]
             ELSE UNCHANGED arplibs
    /\ UNCHANGED <<argVars, thinVars, permVars, buildVars, compVars, i, infoVars, procVars,
                   tmp_files, arpdata_written, fixups>>

\* The manifest entry of point n.
ManifestPoint(info, n) ==
    [origin_lib |-> info.origin_lib_list[n + 1],
     lib |-> get_lib_by_index(info, n),
     perm |-> get_perm_by_index(info, n),
     interpvars |-> interpvars_by_index(info, n),
     burnup_list |-> info.burnup_list]

\* The mutant puts the newest entry first.
AddPoint_front(list, point) == <<point>> \o list

\* points.append(entry)
AddPoint(list, point) == Append(list, point)

\* Read the history from the f71 and append the point's manifest entry;
\* the loop goes on to the next point.
Record ==
    /\ pc = "record"
    /\ \E rc \in ExitCodes :
          /\ Invoke("history", get_perm_by_index(arpinfo, i), rc, TRUE)
          /\ IF rc = 0
             THEN /\ points' = AddPoint(points, ManifestPoint(arpinfo, i))
                  /\ i' = i + 1
                  /\ pc' = "set_burnup"
             ELSE UNCHANGED <<points, i>>
    /\ UNCHANGED <<argVars, thinVars, permVars, buildVars, compVars, infoVars, bu_str, thin_bu_str, lib_paths,
                   arplibs, tmp_files, arpdata_written, fixups>>

\* After the loop: remove the scratch directory, write arpdata.txt, return.
Finish ==
    /\ pc = "set_burnup" /\ LoopDone(arpinfo, i)
    /\ tmp_files' = {}
    /\ arpdata_written' = arpdata_written + 1
    /\ pc' = "returned"
    /\ UNCHANGED <<argVars, thinVars, permVars, buildVars, compVars, i, error, infoVars, procVars,
                   arplibs, calls, last, tool_errors, fixups>>

----------------------------------------------------------------------------
(* archive                                                                 *)

\* json.load of generate.olm.json.
ArchiveLoad ==
    /\ entry = "archive" /\ pc = "start"
    /\ \E n \in 0..MaxPerms, layout \in Layouts :
          perms' = [k \in 1..n |-> [input_file |-> InputFile(layout, k - 1)]]
    /\ lib_paths' = <<>>
    /\ i' = 0
    /\ pc' = "archive_tag"
    /\ UNCHANGED <<argVars, thinVars, permVars, buildVars, compVars, error, file_list, interp_list, outputs,
                   burnup_list, previous_output_file, arpinfo, thinned_burnup_list,
                   bu_str, thin_bu_str, points, envVars>>

\* One iteration of the tagging loop: a failing tool is caught and printed.
ArchiveTag ==
    /\ pc = "archive_tag" /\ i < Len(perms)
    /\ LET lib_path == with_suffix(perms[i + 1].input_file, ".system.f33")
       IN  /\ lib_paths' = Append(lib_paths, lib_path)
           /\ \E rc \in ExitCodes :
                 /\ calls' = Append(calls, Call(i, "tag", lib_path))
                 /\ last' = [point |-> i, op |-> "tag", rc |-> rc]
                 /\ tool_errors' = IF rc # 0 THEN tool_errors \cup {[point |-> i, op |-> "tag"]}
                                   ELSE tool_errors
    /\ i' = i + 1
    /\ UNCHANGED <<argVars, thinVars, permVars, buildVars, compVars, pc, error, infoVars, bu_str, thin_bu_str, points,
                   arplibs, tmp_files, arpdata_written, fixups>>

\* Convert all libraries to one archive: a failing tool is caught and
\* printed; the function returns the archive file name.
ArchiveConvert ==
    /\ pc = "archive_tag" /\ i = Len(perms)
    /\ \E rc \in ExitCodes :
          /\ calls' = Append(calls, Call(i, "convert", lib_paths))
          /\ last' = [point |-> i, op |-> "convert", rc |-> rc]
          /\ tool_errors' = IF rc # 0 THEN tool_errors \cup {[point |-> i, op |-> "convert"]}
                            ELSE tool_errors
    /\ pc' = "returned"
    /\ UNCHANGED <<argVars, thinVars, permVars, buildVars, compVars, i, error, infoVars, procVars,
                   arplibs, tmp_files, arpdata_written, fixups>>

----------------------------------------------------------------------------

Next ==
    \/ DryRun \/ LoadGenerate \/ GetFiles \/ SelectFuelType
    \/ ArpinfoLoop \/ ArpinfoCreate \/ GetBurnupLoop \/ GetBurnupReturn
    \/ ThinList \/ ProcessInit
    \/ SetBurnup \/ Thin \/ Tag \/ Convert \/ View \/ Record \/ Finish
    \/ ArchiveLoad \/ ArchiveTag \/ ArchiveConvert

Spec == Init /\ [][Next]_vars

----------------------------------------------------------------------------
(* Claims about _generate_thinned_burnup_list (checked under SpecThin).    *)

\* C1: for every non-empty burnup sequence and every stride keep_every >= 1
\* the call returns a list whose first element is the first element of the
\* input and whose last element is the last element of the input; a
\* sequence of length 1 is returned as it is.
C1_EndsKept ==
    (thin_ret.called /\ keep_every >= 1 /\ y_list # <<>>) =>
        /\ ~thin_ret.raised
        /\ thin_ret.value # <<>>
        /\ Head(thin_ret.value) = Head(y_list)
        /\ thin_ret.value[Len(thin_ret.value)] = y_list[Len(y_list)]
        /\ (Len(y_list) = 1 => thin_ret.value = y_list)

\* C1 witness: a call that thinned interior points away and kept both ends.
C1_Witness ==
    /\ thin_ret.called /\ keep_every >= 2 /\ Len(y_list) >= 4
    /\ ~thin_ret.raised
    /\ Len(thin_ret.value) < Len(y_list)
    /\ y_list[Len(y_list)] # y_list[Len(y_list) - 1]

----------------------------------------------------------------------------
(* Claims about all_permutations (checked under SpecPerm).                 *)

\* The Cartesian product of the axes, as name -> value mappings.
CartesianProduct(st) ==
    {f \in [{st[k].dim : k \in DOMAIN st} -> UNION {Range(st[k].vals) : k \in DOMAIN st}] :
        \A k \in DOMAIN st : f[st[k].dim] \in Range(st[k].vals)}

\* C7: for n >= 1 axes of distinct values, each with at least one value,
\* all_permutations returns exactly c1*...*cn state points, each maps every
\* axis name to a value of that axis, and every tuple of the Cartesian
\* product appears exactly once.
C7_DenseProduct ==
    (/\ perm_ret.called
     /\ Len(states) >= 1
     /\ \A k \in DOMAIN states : Len(states[k].vals) >= 1 /\ Injective(states[k].vals)) =>
        /\ ~perm_ret.raised
        /\ Len(perm_ret.value) = LenProduct([k \in DOMAIN states |-> states[k].vals], DOMAIN states)
        /\ \A r \in DOMAIN perm_ret.value : perm_ret.value[r] \in CartesianProduct(states)
        /\ \A f \in CartesianProduct(states) :
              Cardinality({r \in DOMAIN perm_ret.value : perm_ret.value[r] = f}) = 1

\* C7 witness: three axes with 2, 2 and 1 values: four state points.
C7_Witness ==
    /\ perm_ret.called /\ Len(states) = 3
    /\ Len(states[1].vals) = 2 /\ Len(states[2].vals) = 2 /\ Len(states[3].vals) = 1
    /\ Len(perm_ret.value) = 4

\* The values of a set listed in ascending order.
Ascending(S) ==
    CHOOSE s \in [1..Cardinality(S) -> S] : \A a, b \in 1..Cardinality(S) : a < b => s[a] < s[b]

\* C8: the result does not depend on the order in which the values of an
\* axis are listed: the call returns what it returns for the same axes with
\* every value list in ascending order.  Two inputs with the same axis names
\* in the same order and the same set of values per axis have the same
\* ascending listing, so they return the same list in the same order.
C8_OrderIndependent ==
    perm_ret.called =>
        perm_ret = all_permutations(
            [k \in DOMAIN states |->
                [dim |-> states[k].dim, vals |-> Ascending(Range(states[k].vals))]])

\* C8 witness: a call whose second axis was listed in descending order.
C8_Witness ==
    /\ perm_ret.called /\ Len(states) >= 2
    /\ states[1].vals = <<1, 2>> /\ states[2].vals = <<2, 1>>
    /\ Len(perm_ret.value) >= 4

----------------------------------------------------------------------------
(* Claims about arpdata_txt, _process_libraries and archive (under Spec).  *)

\* Point n (0-based) has run every stage: its library is at its canonical
\* place and its manifest entry is recorded.
PointCompleted(n) ==
    /\ arpinfo.made
    /\ get_lib_by_index(arpinfo, n) \in arplibs.files
    /\ \E k \in DOMAIN points : points[k].perm = get_perm_by_index(arpinfo, n)

\* Some stage of point n has started.
PointStarted(n) ==
    \/ \E c \in DOMAIN calls : calls[c].point = n
    \/ \E f \in tmp_files : f.owner = n

\* C2 (as claimed): when the tag step has failed for point n and the call
\* of arpdata_txt has ended, every other point has run its stages to
\* completion.
C2_SiblingsStillRun ==
    \A e \in tool_errors :
        (entry = "arpdata_txt" /\ e.op = "tag" /\ pc \in {"raised", "returned"}) =>
            \A n \in 0..(num_libs(arpinfo) - 1) : n # e.point => PointCompleted(n)

\* C2 (amended): when the tag step fails for point n the exception leaves
\* the loop at once: the call has raised, the points before n have run all
\* their stages, point n has no manifest entry, and no stage of a point
\* after n is ever started.
C2_FailFast ==
    \A e \in tool_errors :
        (entry = "arpdata_txt" /\ e.op = "tag") =>
            /\ pc = "raised" /\ error.kind = "tool"
            /\ Len(points) = e.point
            /\ \A n \in 0..(num_libs(arpinfo) - 1) :
                  /\ n < e.point => PointCompleted(n)
                  /\ n = e.point => ~PointCompleted(n)
                  /\ n > e.point => ~PointStarted(n) /\ ~PointCompleted(n)

\* C2 witness: the tag step failed for point 2 of 4; points 0 and 1 are
\* complete, point 3 was never started.
C2_Witness ==
    /\ entry = "arpdata_txt" /\ pc = "raised"
    /\ [point |-> 2, op |-> "tag"] \in tool_errors
    /\ num_libs(arpinfo) = 4
    /\ PointCompleted(0) /\ PointCompleted(1) /\ ~PointStarted(3)

\* C3: arpdata.txt is written only after every point has completed all of
\* its stages, and at most once; a call in which a required step of some
\* point failed (the call raised) has written no arpdata.txt.
C3_ManifestAfterAllPoints ==
    /\ arpdata_written > 0 =>
          /\ arpdata_written = 1
          /\ pc = "returned" /\ tool_errors = {}
          /\ Len(points) = num_libs(arpinfo)
          /\ \A n \in 0..(num_libs(arpinfo) - 1) : PointCompleted(n)
    /\ (entry = "arpdata_txt" /\ (pc = "raised" \/ tool_errors # {})) => arpdata_written = 0

\* C3 witness: three points were processed and arpdata.txt was written.
C3_Witness ==
    /\ arpdata_written = 1 /\ num_libs(arpinfo) = 3 /\ Len(points) = 3

\* C3 witness of the failing case: the convert step of the last of three
\* points failed after two points were complete; nothing was written.
C3_WitnessFailed ==
    /\ pc = "raised" /\ [point |-> 2, op |-> "convert"] \in tool_errors
    /\ num_libs(arpinfo) = 3 /\ Len(points) = 2 /\ arpdata_written = 0

\* C4 (as claimed): a non-zero exit of the tool on the tag or convert step
\* is never swallowed: no call, of arpdata_txt or of archive, returns
\* normally after one.
C4_NotSwallowed ==
    pc = "returned" => \A e \in tool_errors : e.op \notin {"tag", "convert"}

\* C5: a non-zero exit of the thinning step does not abort the point: the
\* next stage is the tag step of the same point and no exception is
\* raised; a non-zero exit of the set-burnup, tag or convert step raises.
C5_ThinExitTolerated ==
    entry = "arpdata_txt" =>
        /\ (last.op = "thin" /\ last.rc # 0) =>
              /\ pc = "tag" /\ i = last.point
              /\ error.kind = NoError /\ tool_errors = {}
        /\ (last.op \in {"set_burnup", "tag", "convert"} /\ last.rc # 0) =>
              /\ pc = "raised" /\ error.kind = "tool"
              /\ [point |-> last.point, op |-> last.op] \in tool_errors

\* C5 witness: the thinning step of point 1 exited non-zero and the
\* pipeline stands before the tag step of point 1.
C5_Witness ==
    /\ entry = "arpdata_txt" /\ last = [point |-> 1, op |-> "thin", rc |-> 1]
    /\ pc = "tag" /\ i = 1

\* C6 (as claimed): when _get_burnup_list returns without an error, every
\* output file parsed reported the same burnup sequence, and that sequence
\* is the grid's burnup_list; an error names both conflicting files.
C6_DivergenceIsError ==
    /\ pc = "thin_list" =>
          /\ \A a, b \in DOMAIN outputs : outputs[a] = outputs[b]
          /\ outputs # <<>> => arpinfo.burnup_list = outputs[1]
    /\ (pc = "raised" /\ error.kind = "burnups_deviated") =>
          /\ outputs[Len(outputs)] # outputs[Len(outputs) - 1]
          /\ error.names = {file_list[Len(outputs)].output, file_list[Len(outputs) - 1].output}

\* The invalid arguments arpdata_txt rejects.
InvalidArgs ==
    \/ keep_every <= 0
    \/ fuel_type \notin {"UOX", "MOX"}
    \/ ~(Range(RequiredKeys(fuel_type)) \subseteq dim_map)

\* No side effect so far: arplibs neither removed nor created, no scratch
\* file, no tool invocation, no arpdata.txt.
NoSideEffects ==
    /\ arplibs = Untouched /\ tmp_files = {}
    /\ calls = <<>> /\ arpdata_written = 0

\* C9: the configuration and consistency errors of arpdata_txt are raised
\* before arplibs is removed or created, before any scratch file is written
\* and before the first tool invocation: a call that raised one has had no
\* side effect, and a call with keep_every <= 0, an unknown fuel type or a
\* dim_map lacking a required key never has one.
C9_PreflightBeforeEffects ==
    entry = "arpdata_txt" =>
        /\ (pc = "raised" /\ error.kind \in {"keep_every", "unknown_fuel_type", "dim_map_key",
                                             "state_key", "burnups_deviated"}) => NoSideEffects
        /\ (~dry_run /\ InvalidArgs) => NoSideEffects /\ pc # "returned"

\* C9 witness: the last of the checks, the stride, raised after the
\* permutations and their burnups were read.
C9_Witness ==
    /\ pc = "raised" /\ error.kind = "keep_every"
    /\ Len(outputs) >= 2 /\ NoSideEffects

\* C10: the manifest list is in flat-index order: entry n describes grid
\* point n (origin library, canonical library, coordinates), and after a
\* call in which every point succeeded there is one entry per grid point.
C10_ManifestInIndexOrder ==
    /\ \A k \in DOMAIN points :
          /\ points[k].origin_lib = arpinfo.origin_lib_list[k]
          /\ points[k].lib = get_lib_by_index(arpinfo, k - 1)
          /\ points[k].interpvars = interpvars_by_index(arpinfo, k - 1)
    /\ (entry = "arpdata_txt" /\ ~dry_run /\ pc = "returned") =>
          Len(points) = num_libs(arpinfo)

\* C10 witness: a call returned a manifest of three points with different
\* coordinates.
C10_Witness ==
    /\ entry = "arpdata_txt" /\ pc = "returned" /\ Len(points) = 3
    /\ points[1].interpvars # points[2].interpvars
    /\ points[2].interpvars # points[3].interpvars

----------------------------------------------------------------------------
(* Claims about the thinning stride in arpdata_txt (under Spec).           *)

\* The burnup sequences a call of _generate_thinned_burnup_list may be
\* handed: what the output files hold, and every short sequence.
ThinInputs == BurnupOutputs \cup SeqsUpTo(0..MaxBurnup, MaxLen)

\* For a stride keep_every <= 0 the function raises for every sequence,
\* the empty one included, and hands no list back.
RaisesForEveryList ==
    \A L \in ThinInputs :
        LET r == generate_thinned_burnup_list(keep_every, L)
        IN  r.raised /\ r.value = <<>>

\* C11 (as claimed): a call of arpdata_txt with keep_every <= 0 never
\* completes normally.
C11_NeverCompletes ==
    (entry = "arpdata_txt" /\ keep_every <= 0) => pc # "returned"

\* C11 (amended): for every burnup sequence and every keep_every <= 0 the
\* function raises at once and returns no list; a call of arpdata_txt that
\* is not a dry run and has keep_every <= 0 never completes normally and
\* never holds a thinned list: the ValueError leaves the call before
\* _process_libraries.
C11_RaisesUnlessDryRun ==
    (entry = "arpdata_txt" /\ keep_every <= 0) =>
        /\ pc = "start" => RaisesForEveryList
        /\ ~dry_run =>
              /\ pc \notin {"returned", "process_libraries"}
              /\ thinned_burnup_list = <<>> /\ bu_str = <<>> /\ calls = <<>>
        /\ (pc = "raised" /\ error.kind = "keep_every") => ~dry_run /\ arpinfo.made

\* C11 witness: the stride 0 raised for a grid of burnups read from two
\* output files.
C11_Witness ==
    /\ entry = "arpdata_txt" /\ keep_every = 0 /\ ~dry_run
    /\ pc = "raised" /\ error.kind = "keep_every"
    /\ Len(arpinfo.burnup_list) = 5 /\ Len(outputs) = 2

\* C11, the dry run: a call with keep_every <= 0 returned.
C11_DryRunReturned ==
    /\ entry = "arpdata_txt" /\ keep_every <= 0 /\ dry_run /\ pc = "returned"

----------------------------------------------------------------------------
(* More claims about _generate_thinned_burnup_list (under SpecThin).       *)

\* The list the function returns for stride k and sequence L.
thin(k, L) == generate_thinned_burnup_list(k, L).value

\* C12: for a fixed sequence the length of the returned list does not grow
\* with the stride: for all strides 1 <= k1 <= k2 the list for k2 is no
\* longer than the list for k1.  k1 is the stride of the call, k2 every
\* stride from k1 up to one beyond the longest sequence.
C12_LengthMonotone ==
    (thin_ret.called /\ keep_every >= 1) =>
        /\ ~thin_ret.raised
        /\ \A k2 \in keep_every..(MaxLen + 1) :
              /\ ~generate_thinned_burnup_list(k2, y_list).raised
              /\ Len(thin(k2, y_list)) <= Len(thin_ret.value)

\* C12 witness: a call with stride 2 on four points returned three, fewer
\* than stride 1 returns and more than stride 3 returns.
C12_Witness ==
    /\ thin_ret.called /\ keep_every = 2 /\ Len(y_list) = 4
    /\ Len(thin_ret.value) = 3
    /\ Len(thin(1, y_list)) = 4 /\ Len(thin(3, y_list)) = 2

----------------------------------------------------------------------------
(* More claims about arpdata_txt and _process_libraries (under Spec).      *)

\* The positions of the call after _generate_thinned_burnup_list returned.
AfterThinList ==
    {"process_libraries", "set_burnup", "thin", "tag", "convert", "view", "record"}

\* The positions of the call inside the loop of _process_libraries.
InLoop == AfterThinList \ {"process_libraries"}

\* C13: for every burnup sequence the function returns, for stride 1, a
\* list equal to the sequence; a call of arpdata_txt with keep_every = 1
\* works with a thinned list equal to the full list read from the output
\* files, and no thin invocation of the external tool is issued for any
\* point.
C13_StrideOneIsIdentity ==
    (entry = "arpdata_txt" /\ keep_every = 1) =>
        /\ pc = "start" =>
              \A L \in ThinInputs :
                  /\ ~generate_thinned_burnup_list(1, L).raised
                  /\ thin(1, L) = L
        /\ pc \in AfterThinList => thinned_burnup_list = burnup_list
        /\ pc \in InLoop => bu_str = thin_bu_str /\ bu_str = JoinStr(burnup_list)
        /\ \A c \in DOMAIN calls : calls[c].op # "thin"

\* C13 witness: with keep_every = 1 two points of five burnups each were
\* processed and the call returned.
C13_Witness ==
    /\ entry = "arpdata_txt" /\ keep_every = 1 /\ pc = "returned"
    /\ Len(points) = 2 /\ Len(burnup_list) = 5
    /\ points[1].burnup_list = burnup_list
    /\ \E c \in DOMAIN calls : calls[c].op = "tag" /\ calls[c].point = 1

----------------------------------------------------------------------------
(* More claims about all_permutations (under SpecPerm).                    *)

\* The keyword arguments are degenerate: none at all, or one with no value.
Degenerate(st) == Len(st) = 0 \/ \E k \in DOMAIN st : st[k].vals = <<>>

\* C14 (as claimed): a call with zero axes, or with an axis that has no
\* value, does not raise and returns the empty list.
C14_DegenerateIsEmpty ==
    (perm_ret.called /\ Degenerate(states)) =>
        ~perm_ret.raised /\ perm_ret.value = <<>>

\* C14, the half that holds: with at least one axis, one of them without a
\* value, the call returns the empty list.
C14_EmptyAxisIsEmpty ==
    (perm_ret.called /\ Len(states) >= 1 /\ Degenerate(states)) =>
        ~perm_ret.raised /\ perm_ret.value = <<>>

\* C14, the call without any axis: it raised.
C14_ZeroAxesRaised ==
    perm_ret.called /\ Len(states) = 0 /\ perm_ret.raised

----------------------------------------------------------------------------
(* The order of the tool invocations of _process_libraries (under Spec).   *)

\* The invocations of one point, in the order of the loop body: the thin
\* step only when the thinned list differs from the full one; after the
\* view step the history is read from the f71 for the manifest entry.
PointOps ==
    <<"set_burnup">>
        \o (IF thinned_burnup_list # burnup_list THEN <<"thin">> ELSE <<>>)
        \o <<"tag", "convert", "view", "history">>

\* C15: the invocations of each point are issued in the fixed order
\* set-burnup, thin, tag, convert, view (then the history read that fills
\* the manifest entry), point after point: set-burnup receives the full
\* list read from the output files although the grid's burnup_list already
\* is the thinned list, thin receives the thinned list and is issued only
\* when the thinned list differs from the full list, and no invocation of
\* point n+1 is issued before the manifest entry of point n is appended.
C15_FixedOrder ==
    entry = "arpdata_txt" =>
        /\ \A c \in DOMAIN calls :
              /\ calls[c].point = (c - 1) \div Len(PointOps)
              /\ calls[c].op = PointOps[((c - 1) % Len(PointOps)) + 1]
              /\ calls[c].op = "set_burnup" =>
                    /\ calls[c].arg = JoinStr(burnup_list)
                    /\ arpinfo.burnup_list = thinned_burnup_list
              /\ calls[c].op = "thin" =>
                    /\ calls[c].arg = JoinStr(thinned_burnup_list)
                    /\ calls[c].arg # JoinStr(burnup_list)
              /\ Len(points) >= calls[c].point
        /\ Len(points) = (IF error.kind = "tool" THEN Len(calls) - 1 ELSE Len(calls))
                            \div Len(PointOps)

\* C15 witness: the thinned list differs from the full one, point 0 has
\* its manifest entry and the thin step of point 1 has been issued.
C15_Witness ==
    /\ entry = "arpdata_txt" /\ pc = "tag" /\ i = 1 /\ Len(points) = 1
    /\ thinned_burnup_list # burnup_list
    /\ Len(calls) = 8
    /\ calls[1].op = "set_burnup" /\ calls[1].arg = JoinStr(burnup_list)
    /\ calls[8].op = "thin" /\ calls[8].arg = JoinStr(thinned_burnup_list)

----------------------------------------------------------------------------
(* The scratch files of _process_libraries (under Spec).                   *)

\* C16 (as claimed): the scratch paths of two distinct points differ, for
\* every permutation list the call accepts, and inside the loop the
\* scratch file of every point started so far is still the one that point
\* wrote: no other point has overwritten it.
C16_ScratchUnique ==
    (entry = "arpdata_txt" /\ arpinfo.made) =>
        /\ \A a, b \in 0..(num_libs(arpinfo) - 1) :
              a # b => tmp_lib(arpinfo, a) # tmp_lib(arpinfo, b)
        /\ pc \in InLoop =>
              \A n \in 0..(num_libs(arpinfo) - 1) :
                  PointStarted(n) =>
                      [name |-> tmp_lib(arpinfo, n), owner |-> n] \in tmp_files

\* C16, the collision: point 1 wrote its scratch file over the one of
\* point 0.
C16_Overwritten ==
    /\ entry = "arpdata_txt" /\ pc = "thin" /\ i = 1
    /\ tmp_lib(arpinfo, 0) = tmp_lib(arpinfo, 1)
    /\ tmp_files = {[name |-> tmp_lib(arpinfo, 1), owner |-> 1]}

\* C16, the layout generate's expander writes (perm<k>/perm<k>.inp): the
\* scratch paths of distinct points differ.
C16_UniqueForExpanderLayout ==
    (entry = "arpdata_txt" /\ arpinfo.made
       /\ \A k \in DOMAIN perms : perms[k].input_file = InputFile("perm_dirs", k - 1)) =>
        \A a, b \in 0..(num_libs(arpinfo) - 1) :
            a # b => tmp_lib(arpinfo, a) # tmp_lib(arpinfo, b)

----------------------------------------------------------------------------
(* The points _generate_thinned_burnup_list keeps (under SpecThin).        *)

\* The 0-based indices the claim names for n points and stride k: the two
\* ends and every interior index that is a multiple of k.
KeptIndices(n, k) ==
    {j \in 0..(n - 1) : j = 0 \/ j = n - 1 \/ (0 < j /\ j < n - 1 /\ j % k = 0)}

\* The numbers of a set in increasing order.
RECURSIVE InOrder(_)
InOrder(S) ==
    IF S = {} THEN <<>>
    ELSE LET least == CHOOSE x \in S : \A y \in S : x <= y
         IN  <<least>> \o InOrder(S \ {least})

\* The longest sequence of indices the spacing is checked on.
MaxPoints == 9

\* The indices 0..n-1 as a sequence.
Indices(n) == [m \in 1..n |-> m - 1]

\* C17: for n points and a stride k >= 1 the call returns exactly the
\* points at the indices 0, n-1 and the interior multiples of k, in the
\* order of the input (the function applied to the indices themselves
\* returns those indices ascending); two interior points kept one after
\* the other are at least k steps apart; [0,10,20,30,40] with stride 2
\* gives [0,20,40].
C17_KeptIndices ==
    (thin_ret.called /\ keep_every >= 1) =>
        LET kept == InOrder(KeptIndices(Len(y_list), keep_every))
        IN  /\ ~thin_ret.raised
            /\ thin_ret.value = [m \in DOMAIN kept |-> y_list[kept[m] + 1]]
            /\ \A n \in 0..MaxPoints :
                  LET idx == thin(keep_every, Indices(n))
                  IN  /\ idx = InOrder(KeptIndices(n, keep_every))
                      /\ \A m \in 1..(Len(idx) - 1) :
                            (0 < idx[m] /\ idx[m + 1] < n - 1) =>
                                idx[m + 1] - idx[m] >= keep_every
            /\ thin(2, <<0, 10, 20, 30, 40>>) = <<0, 20, 40>>

\* C17 witness: four points with stride 2: the indices 0, 2 and 3 are kept;
\* of nine points the interior ones kept are two steps apart.
C17_Witness ==
    /\ thin_ret.called /\ keep_every = 2 /\ y_list = <<0, 1, 2, 1>>
    /\ thin_ret.value = <<0, 2, 1>>
    /\ thin(keep_every, Indices(MaxPoints)) = <<0, 2, 4, 6, 8>>

----------------------------------------------------------------------------
(* The two thinning functions compared (under SpecBuild).                  *)

\* C18: for every burnup sequence and every integer thin_factor t >= 0,
\* build.generated_thinned_list(t, L) returns the list
\* assemble._generate_thinned_burnup_list(t + 1, L) returns; thin_factor 0
\* returns the sequence unchanged, and thin_factor 1 removes every other
\* interior burnup: of the interior points those at the even indices stay.
C18_ThinnersAgree ==
    (build_ret.called /\ thin_factor >= 0) =>
        LET other == generate_thinned_burnup_list(thin_factor + 1, y_list)
            even  == InOrder(KeptIndices(Len(y_list), 2))
        IN  /\ ~build_ret.raised /\ ~other.raised
            /\ build_ret.value = other.value
            /\ thin_factor = 0 => build_ret.value = y_list
            /\ thin_factor = 1 =>
                  build_ret.value = [m \in DOMAIN even |-> y_list[even[m] + 1]]
            /\ \A n \in 0..MaxPoints :
                  generated_thinned_list(thin_factor, Indices(n)).value
                      = thin(thin_factor + 1, Indices(n))

\* C18 witness: thin_factor 1 on four points removed the point at index 1.
C18_Witness ==
    /\ build_ret.called /\ thin_factor = 1 /\ y_list = <<0, 1, 2, 1>>
    /\ build_ret.value = <<0, 2, 1>>
    /\ generated_thinned_list(2, Indices(MaxPoints)).value = <<0, 3, 6, 8>>

----------------------------------------------------------------------------
(* The range check of comp_mox_ornltm2003_2 (under SpecComp).              *)

\* C19 (as claimed): the call raises ValueError for every pu239_frac that
\* is not strictly between 0 and 100, and computes a composition only for
\* 0 < pu239_frac < 100.
C19_RangeChecked ==
    comp_ret.called =>
        /\ ~(0 < state.pu239_frac /\ state.pu239_frac < 100) =>
              comp_ret.raised /\ comp_ret.error = "ValueError"
        /\ ~comp_ret.raised => (0 < state.pu239_frac /\ state.pu239_frac < 100)

\* C19, the half that holds: pu239_frac <= 0 raises ValueError.
C19_LowerEndChecked ==
    (comp_ret.called /\ state.pu239_frac <= 0) =>
        comp_ret.raised /\ comp_ret.error = "ValueError"

\* C19, the failing input: a composition was computed for pu239_frac = 100.
C19_ComputedAtHundred ==
    /\ comp_ret.called /\ state.pu239_frac = 100 /\ ~comp_ret.raised

====
